---- MODULE Spec2Model ----
(***************************************************************************)
(* Model of the attendance server in routes/attendance_routes.py:          *)
(* POST /api/recognize handled by concurrent worker threads, the clock     *)
(* behind date.today(), and the two reporting endpoints GET /api/reports   *)
(* and GET /api/reports/export.                                            *)
(*                                                                         *)
(* Units.  A face encoding is a point on a line, the points 0.3 apart, so  *)
(* the distance of two encodings is 30 * |a - b| hundredths.  Indexes are  *)
(* 1-based; index 0 stands for Python's None.  A date is a day ordinal     *)
(* counted from 2024-12-31, a timestamp the ordinal of the commit.         *)
(***************************************************************************)
EXTENDS Integers, Sequences, FiniteSets, TLC

\* ---------------------------------------------------------------- bounds
NumStudents == 2    \* rows of the Student table
MaxFaces    == 2    \* rows of the Face table (the gallery)
MaxEnc      == 2    \* encodings are the points 0..MaxEnc
MaxFrame    == 2    \* faces detected in one uploaded frame
MaxLive     == 2    \* faces detected in all the frames uploaded together
NumThreads  == 2    \* worker threads, one request each
MaxDate     == 1    \* days the clock runs over: 0..MaxDate
MaxRows     == 3    \* Attendance rows of a drawn database (reports)

\* tolerance=0.5 of the call to compare_face, in hundredths
Tolerance == 50

Students == 1..NumStudents
Encs     == 0..MaxEnc
Threads  == 1..NumThreads
Dates    == 0..MaxDate
None     == 0

VARIABLES
    faces,       \* Face joined with Student: sequence of [encoding, student]
    attendance,  \* Attendance table: sequence of [student_id, date, timestamp]
    today,       \* what date.today() returns now
    req,         \* per worker thread: the recognize request it is handling
    report       \* the last response of a reporting endpoint

vars == <<faces, attendance, today, req, report>>

\* ------------------------------------------------------------ Student table
\* Student.name of the student with primary key s; names need not be in
\* primary-key order.
StudentName(s) == CASE s = 1 -> "Bob" [] s = 2 -> "Ann" [] OTHER -> "Cy"

\* Collation rank of Student.name, for ORDER BY Student.name.
NameKey(s) == CASE s = 1 -> 2 [] s = 2 -> 1 [] OTHER -> 3

\* Student.student_id, the external identifier.
ExternalId(s) == 1000 + s

Abs(x) == IF x < 0 THEN -x ELSE x

\* -------------------------------------------------------------- the matcher
\* face_recognition.face_distance: Euclidean distance, in hundredths.
Dist(a, b) == 30 * Abs(a - b)

\* numpy.argmin over the distances: the first index of a minimal entry.
ArgMin(known, live) ==
    CHOOSE i \in 1..Len(known) :
        /\ \A j \in 1..Len(known) : Dist(known[i], live) <= Dist(known[j], live)
        /\ \A j \in 1..(i - 1) : Dist(known[j], live) > Dist(known[i], live)

\* models.face_recognition_model.compare_face: the nearest known encoding,
\* accepted when its distance is below the tolerance; the confidence is
\* derived from the distance (1 - distance), here in percent.
compare_face(known, live, tolerance) ==
    LET idx == ArgMin(known, live)
        d   == Dist(known[idx], live)
    IN  [idx |-> IF d < tolerance THEN idx ELSE None, confidence |-> 100 - d]

\* ------------------------------------------------------------------ helpers
SeqsUpTo(S, n) == UNION {[1..k -> S] : k \in 0..n}

\* face_recognition.face_locations: the bounding box of the k-th detected face.
Location(k) == <<k, k, k, k>>

face_locations(encs) == [k \in 1..Len(encs) |-> Location(k)]

\* known_encodings, known_student_ids, known_names of the loaded gallery.
known_encodings(known_faces) == [k \in 1..Len(known_faces) |-> known_faces[k].encoding]

known_student_ids(known_faces) == [k \in 1..Len(known_faces) |-> known_faces[k].student]

known_names(known_faces) == [k \in 1..Len(known_faces) |-> StudentName(known_faces[k].student)]

\* MatchFace with the tolerance doubled.
MatchFaceLoose(known_faces, live) ==
    compare_face(known_encodings(known_faces), live, 2 * Tolerance)

\* The call compare_face(known_encodings, live_encoding, tolerance=0.5).
MatchFace(known_faces, live) == compare_face(known_encodings(known_faces), live, Tolerance)

\* name = known_names[match_idx]
MatchedName(known_faces, idx) == known_names(known_faces)[idx]

\* MatchedStudent reading the first gallery row instead of the matched one.
MatchedStudentFirst(known_faces, idx) == known_student_ids(known_faces)[1]

\* student_pk = known_student_ids[match_idx]
MatchedStudent(known_faces, idx) == known_student_ids(known_faces)[idx]

\* AlreadyMarked filtering on the external student_id instead of the key.
AlreadyMarkedByExternalId(table, student_pk, day) ==
    \E k \in 1..Len(table) :
        table[k].student_id = ExternalId(student_pk) /\ table[k].date = day

\* Attendance.query.filter(student_id == student_pk, date == today).first()
\* is not None.
AlreadyMarked(table, student_pk, day) ==
    \E k \in 1..Len(table) : table[k].student_id = student_pk /\ table[k].date = day

\* AddAndCommit storing the day after today (the UTC date, east of Greenwich).
AddAndCommitNextDay(table, student_pk, day) ==
    Append(table, [student_id |-> student_pk, date |-> day + 1, timestamp |-> Len(table) + 1])

\* att = Attendance(student_id=student_pk, date=today, timestamp=utcnow());
\* db.session.add(att); db.session.commit()
AddAndCommit(table, student_pk, day) ==
    Append(table, [student_id |-> student_pk, date |-> day, timestamp |-> Len(table) + 1])

\* Rollback left out: the pending row stays in the session and is flushed.
RollbackMissing(table, student_pk, day) ==
    Append(table, [student_id |-> student_pk, date |-> day, timestamp |-> Len(table) + 1])

\* db.session.rollback() after a failed add/commit: the pending row is dropped.
Rollback(table, student_pk, day) == table

\* f"{name} (Marked)" and the plain name, as the pieces of the string.
MarkedName(name) == <<name, " (Marked)">>

PlainName(name) == <<name>>

\* AppendResult leaving unknown faces out of the results.
AppendResultKnownOnly(results, name, confidence, k) ==
    IF name = <<"Unknown">> THEN results
    ELSE Append(results, [name |-> name, confidence |-> confidence, location |-> <<k, k, k, k>>])

\* results.append({'name': ..., 'confidence': ..., 'location': ...})
AppendResult(results, name, confidence, k) ==
    Append(results, [name |-> name, confidence |-> confidence, location |-> Location(k)])

\* ------------------------------------------------------------ POST /api/recognize
NoResponse == [status |-> 0, error |-> "", results |-> <<>>, locations |-> <<>>]

ErrorResponse(code, msg) == [status |-> code, error |-> msg, results |-> <<>>, locations |-> <<>>]

\* jsonify({'results': results}) and jsonify({'results': [], 'locations': ...})
OkResponse(results, locations) ==
    [status |-> 200, error |-> "", results |-> results, locations |-> locations]

IdleRequest ==
    [pc |-> "idle", upload |-> "none", encs |-> <<>>, today |-> 0, i |-> 1,
     match |-> [idx |-> None, confidence |-> 0], results |-> <<>>,
     response |-> NoResponse, trace |-> <<>>]

\* One entry of the per-request history (not program state): what the loop
\* did with the face of that position.
TraceEntry(enc, idx, pk, already, inserted, failed, rows) ==
    [enc |-> enc, idx |-> idx, pk |-> pk, already |-> already, inserted |-> inserted,
     failed |-> failed, rows |-> rows]

\* Faces detected so far in the frames of all the requests.
LiveFaces == LET Sum[k \in 0..NumThreads] ==
                     IF k = 0 THEN 0 ELSE Sum[k - 1] + Len(req[k].encs)
             IN  Sum[NumThreads]

\* The request arrives: file lookup, decode, detection, gallery load, today.
Begin(t) ==
    /\ req[t].pc = "idle"
    /\ \E upload \in {"none", "garbage", "image"} :
       \E encs \in SeqsUpTo(Encs, MaxFrame) :
          /\ upload # "image" => encs = <<>>
          /\ LiveFaces + Len(encs) <= MaxLive
          /\ req' = [req EXCEPT ![t] =
                CASE upload = "none" ->
                       [@ EXCEPT !.pc = "done", !.upload = upload,
                                 !.response = ErrorResponse(400, "no image uploaded")]
                  [] upload = "garbage" ->
                       [@ EXCEPT !.pc = "done", !.upload = upload,
                                 !.response = ErrorResponse(400, "could not decode image")]
                  [] upload = "image" /\ faces = <<>> ->
                       [@ EXCEPT !.pc = "done", !.upload = upload, !.encs = encs,
                                 !.response = OkResponse(<<>>, face_locations(encs))]
                  [] OTHER ->
                       [@ EXCEPT !.pc = "loop", !.upload = upload, !.encs = encs,
                                 !.today = today, !.i = 1]]
    /\ UNCHANGED <<faces, attendance, today, report>>

\* One iteration of the loop up to the existence query.
CheckFace(t) ==
    LET r       == req[t]
        live    == r.encs[r.i]
        m       == MatchFace(faces, live)
        name    == MatchedName(faces, m.idx)
        pk      == MatchedStudent(faces, m.idx)
        already == AlreadyMarked(attendance, pk, r.today)
    IN  /\ r.pc = "loop"
        /\ r.i <= Len(r.encs)
        /\ req' = [req EXCEPT ![t] =
              IF m.idx = None
              THEN [@ EXCEPT !.i = r.i + 1,
                             !.results = AppendResult(r.results, PlainName("Unknown"), m.confidence, r.i),
                             !.trace = Append(r.trace, TraceEntry(live, None, None, FALSE, FALSE, FALSE, Len(attendance)))]
              ELSE IF already
              THEN [@ EXCEPT !.i = r.i + 1,
                             !.results = AppendResult(r.results, PlainName(name), m.confidence, r.i),
                             !.trace = Append(r.trace, TraceEntry(live, m.idx, pk, TRUE, FALSE, FALSE, Len(attendance)))]
              ELSE [@ EXCEPT !.pc = "insert", !.match = m]]
        /\ UNCHANGED <<faces, attendance, today, report>>

\* add + commit succeeds.
InsertOk(t) ==
    LET r    == req[t]
        name == MatchedName(faces, r.match.idx)
        pk   == MatchedStudent(faces, r.match.idx)
    IN  /\ r.pc = "insert"
        /\ attendance' = AddAndCommit(attendance, pk, r.today)
        /\ req' = [req EXCEPT ![t] =
              [@ EXCEPT !.pc = "loop", !.i = r.i + 1,
                        !.results = AppendResult(r.results, MarkedName(name), r.match.confidence, r.i),
                        !.trace = Append(r.trace, TraceEntry(r.encs[r.i], r.match.idx, pk, FALSE, TRUE, FALSE, Len(attendance')))]]
        /\ UNCHANGED <<faces, today, report>>

\* add + commit raises: rollback, log, carry on with the plain name.
InsertFail(t) ==
    LET r    == req[t]
        name == MatchedName(faces, r.match.idx)
        pk   == MatchedStudent(faces, r.match.idx)
    IN  /\ r.pc = "insert"
        /\ attendance' = Rollback(attendance, pk, r.today)
        /\ req' = [req EXCEPT ![t] =
              [@ EXCEPT !.pc = "loop", !.i = r.i + 1,
                        !.results = AppendResult(r.results, PlainName(name), r.match.confidence, r.i),
                        !.trace = Append(r.trace, TraceEntry(r.encs[r.i], r.match.idx, pk, FALSE, FALSE, TRUE, Len(attendance)))]]
        /\ UNCHANGED <<faces, today, report>>

\* The loop is over: return jsonify({'results': results}).
Respond(t) ==
    /\ req[t].pc = "loop"
    /\ req[t].i > Len(req[t].encs)
    /\ req' = [req EXCEPT ![t] =
          [@ EXCEPT !.pc = "done", !.response = OkResponse(req[t].results, <<>>)]]
    /\ UNCHANGED <<faces, attendance, today, report>>

\* Midnight: date.today() moves on.
Tick ==
    /\ today < MaxDate
    /\ today' = today + 1
    /\ UNCHANGED <<faces, attendance, req, report>>

\* ------------------------------------------------------- the reporting endpoints
\* A date string of a query, as its '-'-separated fields <<year, month, day>>;
\* <<>> is a missing parameter (None).
\* date.isoformat(): day ordinal 0 is 2024-12-31, so the ordinals that follow
\* fall in January 2025.
IsoFormat(d) == IF d <= 0 THEN <<2024, 12, 31 + d>> ELSE <<2025, 1, d>>

\* Whether datetime.strptime(s, '%Y-%m-%d') accepts s: three fields, a month
\* and a day of the calendar (the months in reach have 31 days).
ParseOk(s) == Len(s) = 3 /\ s[2] \in 1..12 /\ s[3] \in 1..31

\* datetime.strptime(s, '%Y-%m-%d').date(), as a day ordinal.
ParseDate(s) == IF s[1] = 2024 THEN s[3] - 31 ELSE s[3]

\* The values a start_date or end_date parameter takes here: missing, cut
\* short ("2025-01"), or a date.
DateArgs == {<<>>, <<2025, 1>>} \cup {IsoFormat(d) : d \in Dates}

\* InRange with the end date excluded.
InRangeEndExcluded(day, start, end) == start <= day /\ day < end

\* Attendance.date >= start_date, Attendance.date <= end_date
InRange(day, start, end) == start <= day /\ day <= end

\* The filtered query of get_reports_data for student s.
StudentRecords(table, s, start, end) ==
    LET Keep(r) == r.student_id = s /\ InRange(r.date, start, end)
    IN  SelectSeq(table, Keep)

\* PresentDates built as a list: one entry per record.
PresentDatesList(records) == {<<k, records[k].date>> : k \in 1..Len(records)}

\* present_dates = {r.date.isoformat() for r in records}
PresentDates(records) == {IsoFormat(records[k].date) : k \in 1..Len(records)}

\* One entry of report_data.
ReportEntry(table, s, start, end) ==
    LET present_dates == PresentDates(StudentRecords(table, s, start, end))
    IN  [id |-> s, student_id |-> ExternalId(s), name |-> StudentName(s),
         present_count |-> Cardinality(present_dates), present_dates |-> present_dates]

\* ReportsResponse with a missing or malformed end_date: an empty report, 200.
ReportsResponseLenient(s, e, table) ==
    IF s # <<>> /\ s[1] \in {2024, 2025} /\ Len(s) = 3 /\ s[2] \in 1..12
    THEN [endpoint |-> "reports", start |-> s, end |-> e, status |-> 200, rows |-> <<>>]
    ELSE [endpoint |-> "reports", start |-> s, end |-> e, status |-> 400, rows |-> <<>>]

\* get_reports_data: the whole handler, a function of the query and the tables.
ReportsResponse(s, e, table) ==
    IF ParseOk(s) /\ ParseOk(e)
    THEN [endpoint |-> "reports", start |-> s, end |-> e, status |-> 200,
          rows |-> [k \in 1..NumStudents |-> ReportEntry(table, k, ParseDate(s), ParseDate(e))]]
    ELSE [endpoint |-> "reports", start |-> s, end |-> e, status |-> 400, rows |-> <<>>]

\* ORDER BY Attendance.date, Student.name, Attendance.timestamp
RowBefore(a, b) ==
    \/ a.date < b.date
    \/ a.date = b.date /\ NameKey(a.student_id) < NameKey(b.student_id)
    \/ a.date = b.date /\ NameKey(a.student_id) = NameKey(b.student_id)
                       /\ a.timestamp < b.timestamp

RECURSIVE InsertRow(_, _)
InsertRow(sorted, r) ==
    IF sorted = <<>> THEN <<r>>
    ELSE IF RowBefore(r, Head(sorted)) THEN <<r>> \o sorted
    ELSE <<Head(sorted)>> \o InsertRow(Tail(sorted), r)

RECURSIVE OrderRows(_)
OrderRows(rows) ==
    IF rows = <<>> THEN <<>>
    ELSE InsertRow(OrderRows(SubSeq(rows, 1, Len(rows) - 1)), rows[Len(rows)])

\* The query of export_csv: Attendance joined with Student, in the range.
ExportRecords(table, start, end) ==
    LET Keep(r) == r.student_id \in Students /\ InRange(r.date, start, end)
    IN  OrderRows(SelectSeq(table, Keep))

\* Attendance.status of a stored row: the column's default.
DefaultStatus == "Present"

CsvHeader == <<"Student Name", "Student ID", "Date", "Time", "Status">>

\* writer.writerow([...]) of one record.
CsvRow(r) ==
    <<StudentName(r.student_id), ExternalId(r.student_id), IsoFormat(r.date),
      r.timestamp, DefaultStatus>>

\* export_csv: the whole handler; rows are the lines of the CSV.
ExportResponse(s, e, table) ==
    IF ParseOk(s) /\ ParseOk(e)
    THEN LET records == ExportRecords(table, ParseDate(s), ParseDate(e))
         IN  [endpoint |-> "export", start |-> s, end |-> e, status |-> 200,
              rows |-> <<CsvHeader>> \o [k \in 1..Len(records) |-> CsvRow(records[k])]]
    ELSE [endpoint |-> "export", start |-> s, end |-> e, status |-> 400, rows |-> <<>>]

NoReport == [endpoint |-> "none", start |-> <<>>, end |-> <<>>, status |-> 0, rows |-> <<>>]

\* GET /api/reports?start_date&end_date
GetReports ==
    /\ report = NoReport
    /\ \E s \in DateArgs : \E e \in DateArgs : report' = ReportsResponse(s, e, attendance)
    /\ UNCHANGED <<faces, attendance, today, req>>

\* GET /api/reports/export?start_date&end_date
ExportCsv ==
    /\ report = NoReport
    /\ \E s \in DateArgs : \E e \in DateArgs : report' = ExportResponse(s, e, attendance)
    /\ UNCHANGED <<faces, attendance, today, req>>

\* The client has read the response of the reporting endpoint.
Collect ==
    /\ report # NoReport
    /\ report' = NoReport
    /\ UNCHANGED <<faces, attendance, today, req>>

\* ------------------------------------------------------------ specifications
Galleries == SeqsUpTo([encoding : Encs, student : Students], MaxFaces)

Init ==
    /\ faces \in Galleries
    /\ attendance = <<>>
    /\ today = 0
    /\ req = [t \in Threads |-> IdleRequest]
    /\ report = NoReport

\* The server under app.run: its worker threads take their steps in any order.
Next ==
    \/ \E t \in Threads : Begin(t)
    \/ \E t \in Threads : CheckFace(t)
    \/ \E t \in Threads : InsertOk(t)
    \/ \E t \in Threads : InsertFail(t)
    \/ \E t \in Threads : Respond(t)
    \/ Tick

Spec == Init /\ [][Next]_vars

\* No request is being handled.
Quiet == report = NoReport /\ \A t \in Threads : req[t].pc \in {"idle", "done"}

\* The server handling one request at a time, all its endpoints.
NextSeq ==
    \/ \E t \in Threads : Quiet /\ Begin(t)
    \/ \E t \in Threads : CheckFace(t)
    \/ \E t \in Threads : InsertOk(t)
    \/ \E t \in Threads : InsertFail(t)
    \/ \E t \in Threads : Respond(t)
    \/ Quiet /\ GetReports
    \/ Quiet /\ ExportCsv
    \/ Collect
    \/ Quiet /\ Tick

SpecSeq == Init /\ [][NextSeq]_vars

\* An Attendance table as the requests of worker threads can leave it: rows
\* of any students and days in any order, the same (student, day) more than
\* once, the timestamps in commit order.
Tables ==
    {[k \in 1..Len(q) |-> [student_id |-> q[k][1], date |-> q[k][2], timestamp |-> k]] :
        q \in SeqsUpTo(Students \X Dates, MaxRows)}

InitReports ==
    /\ faces = [k \in 1..NumStudents |-> [encoding |-> k % (MaxEnc + 1), student |-> k]]
    /\ attendance \in Tables
    /\ today = MaxDate
    /\ req = [t \in Threads |-> IdleRequest]
    /\ report = NoReport

\* The reporting endpoints over a stored table.
NextReports ==
    \/ GetReports
    \/ ExportCsv
    \/ Collect

SpecReports == InitReports /\ [][NextReports]_vars

\* ------------------------------------------------------------------ properties
\* Rows of the table for student s on day d.
RowsOf(table, s, d) == {k \in 1..Len(table) : table[k].student_id = s /\ table[k].date = d}

\* The faces a request has dealt with so far: positions of its history.
Handled(t) == 1..Len(req[t].trace)

HasMarkedSuffix(name) == name[Len(name)] = " (Marked)"

\* Thread t took the step that finished the face at position k.
Finishes(t, k) == Len(req[t].trace) = k - 1 /\ Len(req'[t].trace) = k

\* C1: in every reachable state there is at most one Attendance row per
\* (student_id, date), whatever the interleaving of the requests' steps.
C1_OneRowPerStudentDay ==
    \A s \in Students : \A d \in Dates : Cardinality(RowsOf(attendance, s, d)) <= 1

\* C2: with one marking completing before the next begins, every face that
\* matched a student and whose marking did not fail leaves exactly one row for
\* that student and the request's day: the first marking inserts it, a later
\* one finds it and inserts nothing.
C2_SequentialMarkingOneRow ==
    \A t \in Threads : \A k \in Handled(t) :
        LET e == req[t].trace[k]
        IN  (e.idx # None /\ ~e.failed) =>
                /\ Cardinality(RowsOf(attendance, e.pk, req[t].today)) = 1
                /\ e.already => ~e.inserted

\* Two faces of one frame, or of two successive requests, matched the same
\* student on the same day: the first inserted, the second found the row.
C2_Witness ==
    \E t \in Threads : \E u \in Threads :
    \E k \in Handled(t) : \E l \in Handled(u) :
        /\ req[t].trace[k].inserted
        /\ req[u].trace[l].already
        /\ req[u].trace[l].pk = req[t].trace[k].pk
        /\ req[u].today = req[t].today
        /\ t # u

\* Gallery rows storing exactly the encoding enc.
RowsStoring(enc) == {g \in 1..Len(faces) : faces[g].encoding = enc}

FarFromAll(enc) == \A g \in 1..Len(faces) : Dist(faces[g].encoding, enc) > Tolerance

\* C4: a face whose encoding is farther than the tolerance (0.5) from every
\* known encoding gets no match: the step that finishes it appends a result
\* named "Unknown" and leaves the Attendance table as it was.
C4_FarFaceIsUnknown ==
    [][\A t \in Threads : \A k \in 1..MaxLive :
          (Finishes(t, k) /\ FarFromAll(req'[t].trace[k].enc)) =>
              /\ req'[t].trace[k].idx = None
              /\ Len(req'[t].results) = k
              /\ req'[t].results[k].name = <<"Unknown">>
              /\ attendance' = attendance]_vars

\* A face far from a non-empty gallery was reported.
C4_Witness ==
    \E t \in Threads : \E k \in Handled(t) :
        /\ FarFromAll(req[t].trace[k].enc)
        /\ req[t].pc = "done"
        /\ req[t].response.status = 200
        /\ req[t].response.results[k].name = <<"Unknown">>

\* Attendance rows of the table whose date lies in [a, b].
RowsBetween(table, a, b) == {k \in 1..Len(table) : a <= table[k].date /\ table[k].date <= b}

\* C5: the CSV of a successful export has one data row (a row after the
\* header) per Attendance row whose date d satisfies start_date <= d <= end_date.
C5_ExportRowCount ==
    \A a \in Dates : \A b \in Dates :
        (report.endpoint = "export" /\ report.start = IsoFormat(a) /\ report.end = IsoFormat(b)) =>
            /\ report.status = 200
            /\ Len(report.rows) - 1 = Cardinality(RowsBetween(attendance, a, b))

\* An export of a range that holds two rows and leaves one out.
C5_Witness ==
    /\ report.endpoint = "export"
    /\ report.status = 200
    /\ Len(report.rows) = 3
    /\ Len(attendance) = 3

\* Days in [a, b] on which student s has at least one row.
DaysPresent(table, s, a, b) ==
    {d \in Dates : a <= d /\ d <= b /\ RowsOf(table, s, d) # {}}

\* C6: a successful report gives every student a present_count equal to the
\* number of distinct dates in the range on which the student has at least
\* one Attendance row.
C6_PresentCount ==
    \A a \in Dates : \A b \in Dates :
        (report.endpoint = "reports" /\ report.start = IsoFormat(a) /\ report.end = IsoFormat(b)) =>
            /\ report.status = 200
            /\ Len(report.rows) = NumStudents
            /\ \A s \in Students :
                  /\ report.rows[s].id = s
                  /\ report.rows[s].present_count = Cardinality(DaysPresent(attendance, s, a, b))

\* A report where a student has two rows for one day, counted once, and
\* another student has none.
C6_Witness ==
    /\ report.endpoint = "reports"
    /\ report.status = 200
    /\ \E s \in Students : \E d \in Dates :
          /\ Cardinality(RowsOf(attendance, s, d)) = 2
          /\ report.rows[s].present_count = 1
    /\ \E s \in Students : report.rows[s].present_count = 0

\* C7: when add/commit fails, the step leaves the Attendance table as it was,
\* appends the face's result with the student's plain name and goes on with
\* the loop; the request ends in a successful response with one entry per
\* detected face, the failed one without the "(Marked)" suffix.
C7_InsertFailureIsContained ==
    /\ [][\A t \in Threads : \A k \in 1..MaxLive :
            (Finishes(t, k) /\ req'[t].trace[k].failed) =>
                /\ attendance' = attendance
                /\ req'[t].results[k].name = <<StudentName(req'[t].trace[k].pk)>>
                /\ req'[t].pc = "loop"
                /\ req'[t].i = k + 1]_vars
    /\ [](\A t \in Threads :
            (req[t].pc = "done" /\ \E k \in Handled(t) : req[t].trace[k].failed) =>
                /\ req[t].response.status = 200
                /\ Len(req[t].response.results) = Len(req[t].encs)
                /\ \A k \in Handled(t) : req[t].trace[k].failed =>
                      ~HasMarkedSuffix(req[t].response.results[k].name))

\* A request whose first face failed to be marked went on to mark its second
\* face and answered with both.
C7_Witness ==
    \E t \in Threads :
        /\ req[t].pc = "done"
        /\ Len(req[t].trace) = 2
        /\ req[t].trace[1].failed
        /\ req[t].trace[2].inserted
        /\ Len(req[t].response.results) = 2

IsResultEntry(x) == DOMAIN x = {"name", "confidence", "location"}

\* C9 as stated: every successful response has one result entry per detected
\* face, with name, confidence and bounding box, in detection order.
C9_OneResultPerFace ==
    \A t \in Threads :
        (req[t].pc = "done" /\ req[t].response.status = 200) =>
            /\ Len(req[t].response.results) = Len(req[t].encs)
            /\ \A k \in 1..Len(req[t].encs) :
                  /\ IsResultEntry(req[t].response.results[k])
                  /\ req[t].response.results[k].location = Location(k)

\* C9 amended: with at least one Face row stored, every successful response
\* has one result entry per detected face, in detection order; with no Face
\* row stored it has no result entry and carries the detected boxes as
\* 'locations'.
C9_OneResultPerFaceUnlessNoGallery ==
    \A t \in Threads :
        (req[t].pc = "done" /\ req[t].response.status = 200) =>
            IF faces = <<>>
            THEN /\ req[t].response.results = <<>>
                 /\ req[t].response.locations = face_locations(req[t].encs)
            ELSE /\ Len(req[t].response.results) = Len(req[t].encs)
                 /\ req[t].response.locations = <<>>
                 /\ \A k \in 1..Len(req[t].encs) :
                       /\ IsResultEntry(req[t].response.results[k])
                       /\ req[t].response.results[k].location = Location(k)

\* A two-face frame answered against a stored gallery, one face known and
\* one unknown.
C9_Witness ==
    \E t \in Threads :
        /\ req[t].pc = "done"
        /\ faces # <<>>
        /\ Len(req[t].response.results) = 2
        /\ req[t].response.results[1].name = <<"Unknown">>
        /\ req[t].response.results[2].name # <<"Unknown">>

\* C10: a result's name carries the "(Marked)" suffix exactly when handling
\* that face inserted a row; the table changes only by such an insert, and
\* the row has the matched gallery row's student and the day the request
\* read as today; a matched face whose student has a row for that day when
\* the existence query runs gets the plain name and inserts nothing, and only
\* a face whose query found no row goes on to insert.
C10_MarkedIffInserted ==
    /\ [](\A t \in Threads : \A k \in Handled(t) :
            LET e == req[t].trace[k]
            IN  /\ HasMarkedSuffix(req[t].results[k].name) <=> e.inserted
                /\ e.inserted =>
                      /\ e.rows \in 1..Len(attendance)
                      /\ attendance[e.rows].student_id = faces[e.idx].student
                      /\ attendance[e.rows].date = req[t].today
                /\ e.already => req[t].results[k].name = <<StudentName(faces[e.idx].student)>>)
    /\ [][/\ attendance' # attendance =>
               \E t \in Threads : \E k \in 1..MaxLive :
                   /\ Finishes(t, k)
                   /\ req'[t].trace[k].inserted
                   /\ Len(attendance') = Len(attendance) + 1
                   /\ SubSeq(attendance', 1, Len(attendance)) = attendance
          /\ \A t \in Threads : \A k \in 1..MaxLive :
               Finishes(t, k) =>
                   /\ req'[t].trace[k].inserted <=> attendance' # attendance
                   /\ (req[t].pc = "loop" /\ req'[t].trace[k].idx # None
                        /\ RowsOf(attendance, faces[req'[t].trace[k].idx].student, req[t].today) # {})
                          => (attendance' = attendance /\ ~HasMarkedSuffix(req'[t].results[k].name))
          /\ \A t \in Threads :
               (req[t].pc = "loop" /\ req'[t].pc = "insert") =>
                   RowsOf(attendance, faces[req'[t].match.idx].student, req[t].today) = {}]_vars

\* One request marked a student, and a request that had read an earlier day
\* as today marked the same student for that earlier day.
C10_Witness ==
    \E t \in Threads : \E u \in Threads :
        /\ t # u
        /\ Handled(t) # {} /\ Handled(u) # {}
        /\ req[t].trace[1].inserted /\ req[u].trace[1].inserted
        /\ req[t].trace[1].pk = req[u].trace[1].pk
        /\ req[t].today < req[u].today
        /\ req[u].trace[1].rows < req[t].trace[1].rows
        /\ HasMarkedSuffix(req[t].results[1].name)

====
